---- MODULE Spec2Model ----
(***************************************************************************)
(* Model of the reventor reminder bot (src/src/main.rs): the SQLite store  *)
(* (users, events), the inbound message handler run by teloxide::repl, and *)
(* the background scanner task, both sharing one Arc<Mutex<Connection>>.   *)
(*                                                                         *)
(* Strings are sequences of character codes, so that the formatting and    *)
(* parsing of timestamps and SQLite's bytewise text comparison are         *)
(* computed and not assumed.                                               *)
(***************************************************************************)
EXTENDS Integers, Sequences, FiniteSets, TLC

----------------------------------------------------------------------------
(* Bounds of the model *)

\* number of inbound messages the transport delivers in one behaviour
MaxMsgs == 2

\* number of store and transport errors the environment injects in one behaviour
MaxFaults == 1

----------------------------------------------------------------------------
(* Characters and strings *)

AT == 64
DOT == 46
SP == 32
COLON == 58

\* the text "/events"
EventsCmd == <<47, 101, 118, 101, 110, 116, 115>>

\* the sentinel 'done' that mark_event_sent writes
Done == <<100, 111, 110, 101>>

IsDigit(c) == c \in 48..57

\* ASCII part of the regex class \s
IsSpace(c) == c \in {9, 10, 11, 12, 13, 32}

DigitVal(c) == c - 48

\* {:02} / %d, %m, %H, %M: two digits, zero padded
D2(n) == <<48 + ((n \div 10) % 10), 48 + (n % 10)>>

\* %Y: four digits, zero padded
D4(n) == <<48 + ((n \div 1000) % 10), 48 + ((n \div 100) % 10),
           48 + ((n \div 10) % 10), 48 + (n % 10)>>

\* "{}" of an integer: decimal, no padding
RECURSIVE FormatInt(_)
FormatInt(n) == IF n < 10 THEN <<48 + n>>
                ELSE FormatInt(n \div 10) \o <<48 + (n % 10)>>

\* value of a string of digits
RECURSIVE ParseInt(_)
ParseInt(s) == IF s = <<>> THEN 0
               ELSE 10 * ParseInt(SubSeq(s, 1, Len(s) - 1)) + DigitVal(s[Len(s)])

AllDigits(s) == \A k \in 1..Len(s) : IsDigit(s[k])

\* bytewise comparison of two texts (SQLite's BINARY collation): a < b
StrLess(a, b) ==
    \E k \in 1..(Len(b)) :
        /\ \A j \in 1..(k - 1) : j <= Len(a) /\ a[j] = b[j]
        /\ \/ k = Len(a) + 1
           \/ k <= Len(a) /\ a[k] < b[k]

\* str.matches('.').count()
CountDots(s) == Cardinality({k \in 1..Len(s) : s[k] = DOT})

----------------------------------------------------------------------------
(* Calendar and the local clock *)

IsLeap(y) == (y % 4 = 0 /\ y % 100 # 0) \/ y % 400 = 0

DaysInMonth(y, m) ==
    IF m = 2 THEN (IF IsLeap(y) THEN 29 ELSE 28)
    ELSE IF m \in {4, 6, 9, 11} THEN 30 ELSE 31

\* chrono::Local::now() at the instants the model's clock visits,
\* in chronological order
Instants == <<
    [y |-> 2024, mo |-> 1, d |-> 2, h |-> 10, mi |-> 0],
    [y |-> 2024, mo |-> 2, d |-> 1, h |-> 10, mi |-> 0],
    [y |-> 2024, mo |-> 5, d |-> 1, h |-> 8, mi |-> 0],
    [y |-> 2025, mo |-> 12, d |-> 31, h |-> 23, mi |-> 59] >>

\* the instants the clock passes through while the scanner runs
ScanInstants == {1, 2}

\* format("%d.%m.%Y")
FormatDate(t) == D2(t.d) \o <<DOT>> \o D2(t.mo) \o <<DOT>> \o D4(t.y)

\* format("%d.%m.%Y %H:%M")
FormatDateTime(t) ==
    FormatDate(t) \o <<SP>> \o D2(t.h) \o <<COLON>> \o D2(t.mi)

\* NaiveDateTime::parse_from_str(s, "%d.%m.%Y %H:%M:%S"): <<t>> or <<>> (Err)
ParseDateTime(s) ==
    IF /\ Len(s) = 19
       /\ s[3] = DOT /\ s[6] = DOT /\ s[11] = SP
       /\ s[14] = COLON /\ s[17] = COLON
       /\ AllDigits(SubSeq(s, 1, 2)) /\ AllDigits(SubSeq(s, 4, 5))
       /\ AllDigits(SubSeq(s, 7, 10)) /\ AllDigits(SubSeq(s, 12, 13))
       /\ AllDigits(SubSeq(s, 15, 16)) /\ AllDigits(SubSeq(s, 18, 19))
    THEN LET d  == ParseInt(SubSeq(s, 1, 2))
             mo == ParseInt(SubSeq(s, 4, 5))
             y  == ParseInt(SubSeq(s, 7, 10))
             h  == ParseInt(SubSeq(s, 12, 13))
             mi == ParseInt(SubSeq(s, 15, 16))
             se == ParseInt(SubSeq(s, 18, 19))
         IN IF /\ mo \in 1..12
               /\ d \in 1..DaysInMonth(y, mo)
               /\ h \in 0..23 /\ mi \in 0..59 /\ se \in 0..60
            THEN <<[y |-> y, mo |-> mo, d |-> d, h |-> h, mi |-> mi]>>
            ELSE <<>>
    ELSE <<>>

\* calendar order of two instants: a strictly before b
Before(a, b) ==
    \/ a.y < b.y
    \/ a.y = b.y /\ a.mo < b.mo
    \/ a.y = b.y /\ a.mo = b.mo /\ a.d < b.d
    \/ a.y = b.y /\ a.mo = b.mo /\ a.d = b.d /\ a.h < b.h
    \/ a.y = b.y /\ a.mo = b.mo /\ a.d = b.d /\ a.h = b.h /\ a.mi < b.mi

----------------------------------------------------------------------------
(* parse_event: the marker grammar  @(?:(\d{2}\.\d{2}(?:\.\d{4})?)\s+)?(\d{2}:\d{2}) *)

DigitsAt(text, i, n) ==
    /\ i >= 1 /\ i + n - 1 <= Len(text)
    /\ \A k \in i..(i + n - 1) : IsDigit(text[k])

CharAt(text, i, c) == i >= 1 /\ i <= Len(text) /\ text[i] = c

\* \d{2}:\d{2} at position i
TimeAt(text, i) ==
    DigitsAt(text, i, 2) /\ CharAt(text, i + 2, COLON) /\ DigitsAt(text, i + 3, 2)

\* \d{2}\.\d{2} at position i
ShortDateAt(text, i) ==
    DigitsAt(text, i, 2) /\ CharAt(text, i + 2, DOT) /\ DigitsAt(text, i + 3, 2)

\* \d{2}\.\d{2}\.\d{4} at position i
LongDateAt(text, i) ==
    ShortDateAt(text, i) /\ CharAt(text, i + 5, DOT) /\ DigitsAt(text, i + 6, 4)

\* first position at or after i that holds no whitespace
SpaceEnd(text, i) ==
    CHOOSE j \in i..(Len(text) + 1) :
        /\ \A k \in i..(j - 1) : IsSpace(text[k])
        /\ (j = Len(text) + 1 \/ ~IsSpace(text[j]))

\* \s+ at position i followed by the time token
SpacesThenTime(text, i) ==
    /\ i >= 1 /\ i <= Len(text) /\ IsSpace(text[i])
    /\ TimeAt(text, SpaceEnd(text, i))

\* the three alternatives of the pattern at an '@' in position i, in the
\* order the regex engine prefers them
LongAt(text, i)   == LongDateAt(text, i + 1) /\ SpacesThenTime(text, i + 11)
ShortAt(text, i)  == ShortDateAt(text, i + 1) /\ SpacesThenTime(text, i + 6)
NoDateAt(text, i) == TimeAt(text, i + 1)

MatchAt(text, i) ==
    /\ CharAt(text, i, AT)
    /\ (LongAt(text, i) \/ ShortAt(text, i) \/ NoDateAt(text, i))

\* Option<Event>: <<>> is None, <<e>> is Some(e); date is Option<String>
parse_event(text) ==
    IF \E i \in 1..Len(text) : MatchAt(text, i)
    THEN LET i == CHOOSE k \in 1..Len(text) :
                      MatchAt(text, k) /\ \A j \in 1..(k - 1) : ~MatchAt(text, j)
         IN IF LongAt(text, i)
            THEN LET t == SpaceEnd(text, i + 11)
                 IN <<[text |-> text, time |-> SubSeq(text, t, t + 4),
                       date |-> <<SubSeq(text, i + 1, i + 10)>>]>>
            ELSE IF ShortAt(text, i)
            THEN LET t == SpaceEnd(text, i + 6)
                 IN <<[text |-> text, time |-> SubSeq(text, t, t + 4),
                       date |-> <<SubSeq(text, i + 1, i + 5)>>]>>
            ELSE <<[text |-> text, time |-> SubSeq(text, i + 1, i + 5),
                    date |-> <<>>]>>
    ELSE <<>>

----------------------------------------------------------------------------
(* The store: tables users(id, telegram_id UNIQUE, username) and           *)
(* events(id, user_id, text, event_time); a row's id is its position.      *)

\* a lookup that lost its WHERE clause: the first row of the table
SelectUserId_NoWhere(us, telegram_id) ==
    IF us = <<>> THEN <<>> ELSE <<1>>

\* SELECT id FROM users WHERE telegram_id = ?  (.optional(): <<>> or <<id>>)
SelectUserId(us, telegram_id) ==
    LET ids == {i \in DOMAIN us : us[i].telegram_id = telegram_id}
    IN IF ids = {} THEN <<>>
       ELSE <<CHOOSE i \in ids : \A j \in ids : i <= j>>

\* the UNIQUE constraint on users.telegram_id rejects the INSERT
UniqueViolation(us, telegram_id) ==
    \E i \in DOMAIN us : us[i].telegram_id = telegram_id

\* INSERT INTO users (telegram_id, username) VALUES (?, ?)
InsertUser(us, telegram_id, username) ==
    Append(us, [telegram_id |-> telegram_id, username |-> username])

\* a composition that never appends the year
ComposeEventTime_NoYear(event, now) ==
    IF event.date # <<>>
    THEN event.date[1] \o <<SP>> \o event.time
    ELSE FormatDate(now) \o <<SP>> \o event.time

\* save_event, lines 86-99: the text of the timestamp before it is parsed
ComposeEventTime(event, now) ==
    IF event.date # <<>>
    THEN LET date == event.date[1]
         IN IF CountDots(date) = 1
            THEN date \o <<DOT>> \o FormatInt(now.y) \o <<SP>> \o event.time
            ELSE date \o <<SP>> \o event.time
    ELSE FormatDate(now) \o <<SP>> \o event.time

\* save_event, lines 104-107: parse with ":00" appended, then format again;
\* <<>> is the parse error on which save_event panics
ResolveEventTime(event, now) ==
    LET parsed == ParseDateTime(ComposeEventTime(event, now) \o <<COLON, 48, 48>>)
    IN IF parsed = <<>> THEN <<>> ELSE <<FormatDateTime(parsed[1])>>

\* INSERT INTO events (user_id, text, event_time) VALUES (?, ?, ?)
InsertEvent(evs, user_id, text, event_time) ==
    Append(evs, [user_id |-> user_id, text |-> text, event_time |-> event_time])

\* a join that lost the filter on the user: every event row
JoinedRows_AllUsers(evs, us, telegram_id) ==
    {e \in DOMAIN evs : evs[e].user_id \in DOMAIN us}

\* rows of events JOIN users ON e.user_id = u.id WHERE u.telegram_id = ?
JoinedRows(evs, us, telegram_id) ==
    {e \in DOMAIN evs : /\ evs[e].user_id \in DOMAIN us
                        /\ us[evs[e].user_id].telegram_id = telegram_id}

\* ORDER BY e.event_time: bytewise order of the stored text, rowid on ties
RowLess(evs, a, b) ==
    \/ StrLess(evs[a].event_time, evs[b].event_time)
    \/ evs[a].event_time = evs[b].event_time /\ a < b

RECURSIVE SortRows(_, _)
SortRows(evs, S) ==
    IF S = {} THEN <<>>
    ELSE LET m == CHOOSE a \in S : \A b \in S \ {a} : RowLess(evs, a, b)
         IN <<m>> \o SortRows(evs, S \ {m})

\* get_user_events: Vec<UserEvent>
get_user_events(evs, us, telegram_id) ==
    LET ids == SortRows(evs, JoinedRows(evs, us, telegram_id))
    IN [k \in 1..Len(ids) |->
          [text |-> evs[ids[k]].text, event_time |-> evs[ids[k]].event_time]]

\* a due query that compares with >= instead of =
DueFilter_GreaterOrEqual(event_time, now) == ~StrLess(event_time, now)

\* WHERE e.event_time = ?
DueFilter(event_time, now) == event_time = now

RECURSIVE RowsInOrder(_, _)
RowsInOrder(S, n) ==
    IF n = 0 THEN <<>>
    ELSE IF n \in S THEN Append(RowsInOrder(S, n - 1), n)
    ELSE RowsInOrder(S, n - 1)

\* get_due_events: Vec<NotificationEvent>, in rowid order; now is the text
\* of chrono::Local::now().format("%d.%m.%Y %H:%M").  eid is the rowid of
\* the event a record was read from: history only, the code does not have it.
get_due_events(evs, us, now) ==
    LET ids == RowsInOrder({e \in DOMAIN evs : /\ evs[e].user_id \in DOMAIN us
                                               /\ DueFilter(evs[e].event_time, now)},
                           Len(evs))
    IN [k \in 1..Len(ids) |->
          [telegram_id |-> us[evs[ids[k]].user_id].telegram_id,
           text |-> evs[ids[k]].text,
           event_time |-> evs[ids[k]].event_time,
           eid |-> ids[k]]]

\* an update that also blanks the text of the rows it marks
mark_event_sent_ClearText(evs, us, telegram_id, event_time) ==
    [e \in DOMAIN evs |->
        IF /\ \E u \in DOMAIN us : us[u].telegram_id = telegram_id /\ u = evs[e].user_id
           /\ evs[e].event_time = event_time
        THEN [evs[e] EXCEPT !.event_time = Done, !.text = <<>>]
        ELSE evs[e]]

\* an update that compares user_id with the telegram id itself
mark_event_sent_NoSubselect(evs, us, telegram_id, event_time) ==
    [e \in DOMAIN evs |->
        IF evs[e].user_id = telegram_id /\ evs[e].event_time = event_time
        THEN [evs[e] EXCEPT !.event_time = Done]
        ELSE evs[e]]

\* UPDATE events SET event_time = 'done' WHERE user_id IN (SELECT id FROM
\* users WHERE telegram_id = ?) AND event_time = ?
mark_event_sent(evs, us, telegram_id, event_time) ==
    [e \in DOMAIN evs |->
        IF /\ \E u \in DOMAIN us : us[u].telegram_id = telegram_id /\ u = evs[e].user_id
           /\ evs[e].event_time = event_time
        THEN [evs[e] EXCEPT !.event_time = Done]
        ELSE evs[e]]

----------------------------------------------------------------------------
(* Inputs *)

\* "@10:00": an event for today
TxtToday == <<AT>> \o D2(10) \o <<COLON>> \o D2(0)

\* "@02.01 10:00": day and month, the current year is appended
TxtShort == <<AT>> \o D2(2) \o <<DOT>> \o D2(1) \o <<SP>> \o D2(10) \o <<COLON>> \o D2(0)

\* "@31.02.2024 10:00": matches the grammar, is no calendar date
TxtBad == <<AT>> \o D2(31) \o <<DOT>> \o D2(2) \o <<DOT>> \o D4(2024)
          \o <<SP>> \o D2(10) \o <<COLON>> \o D2(0)

\* "hi": no marker
TxtHi == <<104, 105>>

\* "@09:30 dentist"
TxtDentist == <<AT>> \o D2(9) \o <<COLON>> \o D2(30)
              \o <<SP, 100, 101, 110, 116, 105, 115, 116>>

\* "@01.02.2024 10:00": a full date
TxtLong == <<AT>> \o D2(1) \o <<DOT>> \o D2(2) \o <<DOT>> \o D4(2024)
           \o <<SP>> \o D2(10) \o <<COLON>> \o D2(0)

\* "go @24.12.2023  07:05": text before the marker, two blanks in it
TxtGo == <<103, 111, SP, AT>> \o D2(24) \o <<DOT>> \o D2(12) \o <<DOT>> \o D4(2023)
         \o <<SP, SP>> \o D2(7) \o <<COLON>> \o D2(5)

\* "@29.02 12:00": a date that exists in leap years only
TxtLeap == <<AT>> \o D2(29) \o <<DOT>> \o D2(2) \o <<SP>> \o D2(12) \o <<COLON>> \o D2(0)

\* "@25:99": matches the grammar, is no time of day
TxtBadTime == <<AT>> \o D2(25) \o <<COLON>> \o D2(99)

\* the messages the transport delivers: msg.from() (sender id and
\* Option<String> username) and msg.text() (None, or Some(text))
Msg(id, username, text) == [from |-> id, username |-> username, text |-> text]

Inbound == {
    Msg(777, <<>>, <<>>),
    Msg(777, <<>>, <<TxtHi>>),
    Msg(555, <<"ann">>, <<EventsCmd>>),
    Msg(555, <<"bob">>, <<TxtToday>>),
    Msg(777, <<>>, <<TxtToday>>),
    Msg(555, <<"ann">>, <<TxtShort>>),
    Msg(777, <<>>, <<TxtBad>>) }

\* the messages of the behaviours that exercise save_event's resolution
ResolveInbound ==
    {Msg(555, <<"ann">>, <<t>>) :
        t \in {TxtToday, TxtShort, TxtBad, TxtDentist, TxtLong, TxtGo, TxtLeap,
               TxtBadTime}}

\* handler invocations that can be in flight at the same time
Handlers == {"h1", "h2"}

NoMsg == [from |-> 0, username |-> <<>>, text |-> <<>>]
NoReply == [kind |-> "none", body |-> <<>>]

----------------------------------------------------------------------------
(* State *)

VARIABLES
    users,      \* table users: sequence of [telegram_id, username], id = index
    events,     \* table events: sequence of [user_id, text, event_time]
    clock,      \* chrono::Local::now() is Instants[clock]
    lock,       \* owner of the tokio Mutex around the Connection, or "free"
    spc,        \* scanner task: "sleep", "query", "send", "mark", "drop"
    due,        \* scanner: the events of the for loop not yet finished
    scanNow,    \* scanner: the text of now that get_due_events last used
    tickOk,     \* history: no store call of the current tick has failed
    sendOk,     \* history: the send of the current loop iteration returned Ok
    tickSent,   \* history: notifications the current tick has sent (0, 1, 2 = more)
    hpc,        \* handler: "idle", "lock", "list", "ensure", "insert", "save",
                \*          "send", "done" (returned), "panicked"
    hmsg,       \* handler: the message being handled
    huid,       \* handler: user_id returned by ensure_user_exists (0: not yet)
    reply,      \* handler: the reply passed to bot.send_message
    hres,       \* handler: outcome: "none", "ok", "db_error", "send_error"
    notified,   \* history: per event, the notifications sent for it (0, 1, 2 = more)
    received,   \* history: number of messages received so far
    faults      \* history: number of errors injected so far

vars == <<users, events, clock, lock, spc, due, scanNow, tickOk, sendOk, tickSent,
          hpc, hmsg, huid, reply, hres, notified, received, faults>>

storeVars == <<users, events>>
scanVars == <<spc, due, scanNow, tickOk, sendOk, tickSent>>
handVars == <<hpc, hmsg, huid, reply, hres, received>>
histVars == <<notified>>

\* a call to the store or the transport returns Ok or, while the budget of
\* injected errors lasts, Err
Outcome(ok) ==
    /\ ok \/ faults < MaxFaults
    /\ faults' = IF ok THEN faults ELSE faults + 1

Now == Instants[clock]

\* the notification counters tell 0, 1 and more than 1 apart
Inc(n) == IF n < 2 THEN n + 1 ELSE n

Init ==
    /\ users = <<>>
    /\ events = <<>>
    /\ clock = 1
    /\ lock = "free"
    /\ spc = "sleep"
    /\ due = <<>>
    /\ scanNow = <<>>
    /\ tickOk = TRUE
    /\ sendOk = TRUE
    /\ tickSent = 0
    /\ hpc = [h \in Handlers |-> "idle"]
    /\ hmsg = [h \in Handlers |-> NoMsg]
    /\ huid = [h \in Handlers |-> 0]
    /\ reply = [h \in Handlers |-> NoReply]
    /\ hres = [h \in Handlers |-> "none"]
    /\ notified = <<>>
    /\ received = 0
    /\ faults = 0

----------------------------------------------------------------------------
(* The wall clock *)

ClockAdvance ==
    /\ clock + 1 \in ScanInstants
    /\ clock' = clock + 1
    /\ UNCHANGED <<storeVars, lock, scanVars, handVars, histVars, faults>>

----------------------------------------------------------------------------
(* The scanner task, main.rs lines 212-236 *)

\* db_for_notifications.lock().await after the sleep
ScanLock ==
    /\ spc = "sleep"
    /\ lock = "free"
    /\ lock' = "scanner"
    /\ spc' = "query"
    /\ UNCHANGED <<storeVars, clock, due, scanNow, tickOk, sendOk, tickSent,
                   handVars, histVars, faults>>

\* a scanner that gives up at a store error: the task ends inside the tick
ScanGetDue_Propagate(ok) ==
    /\ spc = "query"
    /\ Outcome(ok)
    /\ scanNow' = FormatDateTime(Now)
    /\ IF ok
       THEN /\ due' = get_due_events(events, users, FormatDateTime(Now))
            /\ spc' = IF due' = <<>> THEN "drop" ELSE "send"
            /\ UNCHANGED tickOk
       ELSE /\ due' = <<>>
            /\ spc' = "failed"
            /\ tickOk' = FALSE
    /\ UNCHANGED <<storeVars, clock, lock, sendOk, tickSent, handVars, histVars>>

\* if let Ok(events) = get_due_events(&conn); ok = FALSE is a store error
ScanGetDue(ok) ==
    /\ spc = "query"
    /\ Outcome(ok)
    /\ scanNow' = FormatDateTime(Now)
    /\ IF ok
       THEN /\ due' = get_due_events(events, users, FormatDateTime(Now))
            /\ spc' = IF due' = <<>> THEN "drop" ELSE "send"
            /\ UNCHANGED tickOk
       ELSE /\ due' = <<>>
            /\ spc' = "drop"
            /\ tickOk' = FALSE
    /\ UNCHANGED <<storeVars, clock, lock, sendOk, tickSent, handVars, histVars>>

\* let _ = bot.send_message(ChatId(event.telegram_id), ...).await returns;
\* ok = FALSE is a transport error, which is dropped
ScanSend(ok) ==
    /\ spc = "send"
    /\ Outcome(ok)
    /\ notified' = [notified EXCEPT ![due[1].eid] = Inc(@)]
    /\ sendOk' = ok
    /\ tickSent' = Inc(tickSent)
    /\ spc' = "mark"
    /\ UNCHANGED <<storeVars, clock, lock, due, scanNow, tickOk, handVars>>

\* let _ = mark_event_sent(&conn, event.telegram_id, &event.event_time);
\* ok = FALSE is a store error, which is dropped
ScanMark(ok) ==
    /\ spc = "mark"
    /\ Outcome(ok)
    /\ sendOk' = TRUE
    /\ IF ok
       THEN /\ events' = mark_event_sent(events, users, due[1].telegram_id,
                                         due[1].event_time)
            /\ UNCHANGED tickOk
       ELSE /\ UNCHANGED events
            /\ tickOk' = FALSE
    /\ due' = Tail(due)
    /\ spc' = IF due' = <<>> THEN "drop" ELSE "send"
    /\ UNCHANGED <<users, clock, lock, scanNow, tickSent, handVars, histVars>>

\* a tick that ends without drop(conn)
ScanDrop_KeepLock ==
    /\ spc = "drop"
    /\ spc' = "sleep"
    /\ scanNow' = <<>>
    /\ tickOk' = TRUE
    /\ tickSent' = 0
    /\ UNCHANGED <<storeVars, clock, lock, due, sendOk, handVars, histVars, faults>>

\* drop(conn); tokio::time::sleep(10 s)
ScanDrop ==
    /\ spc = "drop"
    /\ lock' = "free"
    /\ spc' = "sleep"
    /\ scanNow' = <<>>
    /\ tickOk' = TRUE
    /\ tickSent' = 0
    /\ UNCHANGED <<storeVars, clock, due, sendOk, handVars, histVars, faults>>

Scanner ==
    \/ ScanLock
    \/ \E ok \in BOOLEAN : ScanGetDue(ok)
    \/ \E ok \in BOOLEAN : ScanSend(ok)
    \/ \E ok \in BOOLEAN : ScanMark(ok)
    \/ ScanDrop

----------------------------------------------------------------------------
(* The message handler, main.rs lines 238-286 *)

\* a chain without the test for the listing command
Dispatch_NoListing(text) ==
    IF text = <<>> THEN "none"
    ELSE IF parse_event(text[1]) # <<>> THEN "marker"
    ELSE "help"

\* the if / else if / else chain of lines 241-282
Dispatch(text) ==
    IF text = <<>> THEN "none"
    ELSE IF text[1] = EventsCmd THEN "listing"
    ELSE IF parse_event(text[1]) # <<>> THEN "marker"
    ELSE "help"

Path(h) == Dispatch(hmsg[h].text)

\* lines 250-255: "{i+1}. {event_time} - {text}" for every element
ListingLines(evs) ==
    [k \in 1..Len(evs) |->
        [n |-> k, event_time |-> evs[k].event_time, text |-> evs[k].text]]

\* the handler returns (Ok or Err): its guard, if it holds one, is dropped
Release(h) == IF lock = h THEN "free" ELSE lock

\* teloxide calls the closure with the next message
HReceive(h, m) ==
    /\ hpc[h] \in {"idle", "done"}
    /\ received < MaxMsgs
    /\ received' = received + 1
    /\ hmsg' = [hmsg EXCEPT ![h] = m]
    /\ LET path == Dispatch(m.text)
       IN /\ hpc' = [hpc EXCEPT ![h] =
                        CASE path = "none" -> "done"
                          [] path = "help" -> "send"
                          [] OTHER -> "lock"]
          /\ reply' = [reply EXCEPT ![h] =
                        IF path = "help" THEN [kind |-> "help", body |-> <<>>]
                        ELSE NoReply]
          /\ hres' = [hres EXCEPT ![h] = IF path = "none" THEN "ok" ELSE "none"]
    /\ huid' = [huid EXCEPT ![h] = 0]
    /\ UNCHANGED <<storeVars, clock, lock, scanVars, histVars, faults>>

\* a lock() that returns a guard without waiting for the holder
HLock_NoWait(h) ==
    /\ hpc[h] = "lock"
    /\ lock' = h
    /\ hpc' = [hpc EXCEPT ![h] = IF Path(h) = "listing" THEN "list" ELSE "ensure"]
    /\ UNCHANGED <<storeVars, clock, scanVars, hmsg, huid, reply, hres,
                   received, histVars, faults>>

\* let conn = db.lock().await;  (lines 243 and 260)
HLock(h) ==
    /\ hpc[h] = "lock"
    /\ lock = "free"
    /\ lock' = h
    /\ hpc' = [hpc EXCEPT ![h] = IF Path(h) = "listing" THEN "list" ELSE "ensure"]
    /\ UNCHANGED <<storeVars, clock, scanVars, hmsg, huid, reply, hres,
                   received, histVars, faults>>

\* the handler returns Err(DatabaseError(e).into()) through `?`
DbError(h) ==
    /\ hpc' = [hpc EXCEPT ![h] = "done"]
    /\ hres' = [hres EXCEPT ![h] = "db_error"]
    /\ lock' = Release(h)

\* lines 244-258: get_user_events and the text of the listing
HList(h, ok) ==
    /\ Outcome(ok)
    /\ hpc[h] = "list"
    /\ IF ok
       THEN LET evs == get_user_events(events, users, hmsg[h].from)
            IN /\ reply' = [reply EXCEPT ![h] =
                              IF evs = <<>>
                              THEN [kind |-> "noevents", body |-> <<>>]
                              ELSE [kind |-> "listing", body |-> ListingLines(evs)]]
               /\ hpc' = [hpc EXCEPT ![h] = "send"]
               /\ UNCHANGED <<lock, hres>>
       ELSE DbError(h) /\ UNCHANGED reply
    /\ UNCHANGED <<storeVars, clock, scanVars, hmsg, huid, received, histVars>>

\* ensure_user_exists, lines 67-74: the SELECT
HEnsureSelect(h, ok) ==
    /\ Outcome(ok)
    /\ hpc[h] = "ensure"
    /\ IF ok
       THEN LET existing_id == SelectUserId(users, hmsg[h].from)
            IN /\ IF existing_id # <<>>
                  THEN /\ huid' = [huid EXCEPT ![h] = existing_id[1]]
                       /\ hpc' = [hpc EXCEPT ![h] = "save"]
                  ELSE /\ hpc' = [hpc EXCEPT ![h] = "insert"]
                       /\ UNCHANGED huid
               /\ UNCHANGED <<lock, hres>>
       ELSE DbError(h) /\ UNCHANGED huid
    /\ UNCHANGED <<storeVars, clock, scanVars, hmsg, reply, received, histVars>>

\* ensure_user_exists, lines 75-81: the INSERT and last_insert_rowid()
HEnsureInsert(h, ok) ==
    /\ Outcome(ok)
    /\ hpc[h] = "insert"
    /\ IF ok /\ ~UniqueViolation(users, hmsg[h].from)
       THEN /\ users' = InsertUser(users, hmsg[h].from, hmsg[h].username)
            /\ huid' = [huid EXCEPT ![h] = Len(users')]
            /\ hpc' = [hpc EXCEPT ![h] = "save"]
            /\ UNCHANGED <<lock, hres>>
       ELSE DbError(h) /\ UNCHANGED <<users, huid>>
    /\ UNCHANGED <<events, clock, scanVars, hmsg, reply, received, histVars>>

\* lines 270-275: the confirmation
Confirmation(event) ==
    [kind |-> "saved",
     body |-> <<[date |-> event.date, time |-> event.time, text |-> event.text]>>]

\* save_event: a timestamp that does not parse panics (line 105); the
\* unwinding drops the guard and ends the task that runs the closure
HSave(h, ok) ==
    /\ hpc[h] = "save"
    /\ Outcome(ok)
    /\ \E event \in {parse_event(hmsg[h].text[1])[1]} :
       \E event_datetime \in {ResolveEventTime(event, Now)} :
          IF event_datetime = <<>>
          THEN /\ ok
               /\ hpc' = [hpc EXCEPT ![h] = "panicked"]
               /\ lock' = Release(h)
               /\ UNCHANGED <<events, reply, hres, histVars>>
          ELSE IF ok
          THEN /\ events' = InsertEvent(events, huid[h], event.text,
                                        event_datetime[1])
               /\ notified' = Append(notified, 0)
               /\ reply' = [reply EXCEPT ![h] = Confirmation(event)]
               /\ hpc' = [hpc EXCEPT ![h] = "send"]
               /\ UNCHANGED <<lock, hres>>
          ELSE DbError(h) /\ UNCHANGED <<events, reply, histVars>>
    /\ UNCHANGED <<users, clock, scanVars, hmsg, huid, received>>

\* bot.send_message(msg.chat.id, ...).await? returns; the block ends and
\* the guard, if this path took one, is dropped
HSend(h, ok) ==
    /\ Outcome(ok)
    /\ hpc[h] = "send"
    /\ hpc' = [hpc EXCEPT ![h] = "done"]
    /\ hres' = [hres EXCEPT ![h] = IF ok THEN "ok" ELSE "send_error"]
    /\ lock' = Release(h)
    /\ UNCHANGED <<storeVars, clock, scanVars, hmsg, huid, reply, received,
                   histVars>>

Handler(h) ==
    \/ \E m \in Inbound : HReceive(h, m)
    \/ HLock(h)
    \/ \E ok \in BOOLEAN : HList(h, ok)
    \/ \E ok \in BOOLEAN : HEnsureSelect(h, ok)
    \/ \E ok \in BOOLEAN : HEnsureInsert(h, ok)
    \/ \E ok \in BOOLEAN : HSave(h, ok)
    \/ \E ok \in BOOLEAN : HSend(h, ok)

----------------------------------------------------------------------------
Next ==
    \/ ClockAdvance
    \/ Scanner
    \/ \E h \in Handlers : Handler(h)

Spec == Init /\ [][Next]_vars

\* a handler invocation that has taken a message runs to its end: every store
\* call and every send returns
HandlerRuns(h) ==
    \/ \E ok \in BOOLEAN : HList(h, ok)
    \/ \E ok \in BOOLEAN : HEnsureSelect(h, ok)
    \/ \E ok \in BOOLEAN : HEnsureInsert(h, ok)
    \/ \E ok \in BOOLEAN : HSave(h, ok)
    \/ \E ok \in BOOLEAN : HSend(h, ok)

\* The tokio runtime polls every task that is ready, the sleep of the scanner
\* ends, and tokio's Mutex hands the lock to its waiters in the order they
\* asked for it, so a waiter is not passed over for ever.
Fairness ==
    /\ WF_vars(Scanner)
    /\ \A h \in Handlers : WF_vars(HandlerRuns(h)) /\ SF_vars(HLock(h))

\* the messages of the behaviours checked for progress: one user lists and
\* stores events
LiveInbound == {Msg(555, <<"ann">>, <<EventsCmd>>), Msg(555, <<"ann">>, <<TxtToday>>)}

NextLive ==
    \/ ClockAdvance
    \/ Scanner
    \/ \E h \in Handlers :
          \/ \E m \in LiveInbound : HReceive(h, m)
          \/ HLock(h)
          \/ HandlerRuns(h)

LiveSpec == Init /\ [][NextLive]_vars /\ Fairness

----------------------------------------------------------------------------
(* Behaviours that start inside a tick, right after the send for the one    *)
(* due event returned a transport error: handler h1 stored "@10:00" for     *)
(* user 555 at 02.01.2024 10:00, answered, and the scanner found the event  *)
(* due in that minute.                                                      *)

InitAfterSendFailure ==
    /\ users = InsertUser(<<>>, 555, <<"bob">>)
    /\ events = InsertEvent(<<>>, 1, TxtToday, FormatDateTime(Instants[1]))
    /\ clock = 1
    /\ lock = "scanner"
    /\ spc = "mark"
    /\ due = get_due_events(events, users, FormatDateTime(Instants[1]))
    /\ scanNow = FormatDateTime(Instants[1])
    /\ tickOk = TRUE
    /\ sendOk = FALSE
    /\ tickSent = 1
    /\ hpc = [h \in Handlers |-> IF h = "h1" THEN "done" ELSE "idle"]
    /\ hmsg = [h \in Handlers |->
                 IF h = "h1" THEN Msg(555, <<"bob">>, <<TxtToday>>) ELSE NoMsg]
    /\ huid = [h \in Handlers |-> IF h = "h1" THEN 1 ELSE 0]
    /\ reply = [h \in Handlers |->
                 IF h = "h1" THEN Confirmation(parse_event(TxtToday)[1])
                 ELSE NoReply]
    /\ hres = [h \in Handlers |-> IF h = "h1" THEN "ok" ELSE "none"]
    /\ notified = <<1>>
    /\ received = 1
    /\ faults = 0

SpecAfterSendFailure == InitAfterSendFailure /\ [][Next]_vars

----------------------------------------------------------------------------
(* Behaviours that exercise parse_event and save_event: one handler takes   *)
(* marker messages one after the other, at any instant of the local clock,  *)
(* with a store that returns no error.                                      *)

InitResolve ==
    /\ users = <<>>
    /\ events = <<>>
    /\ clock \in DOMAIN Instants
    /\ lock = "free"
    /\ spc = "sleep"
    /\ due = <<>>
    /\ scanNow = <<>>
    /\ tickOk = TRUE
    /\ sendOk = TRUE
    /\ tickSent = 0
    /\ hpc = [h \in Handlers |-> "idle"]
    /\ hmsg = [h \in Handlers |-> NoMsg]
    /\ huid = [h \in Handlers |-> 0]
    /\ reply = [h \in Handlers |-> NoReply]
    /\ hres = [h \in Handlers |-> "none"]
    /\ notified = <<>>
    /\ received = 0
    /\ faults = 0

NextResolve ==
    \/ \E m \in ResolveInbound : HReceive("h1", m)
    \/ HLock("h1")
    \/ HEnsureSelect("h1", TRUE)
    \/ HEnsureInsert("h1", TRUE)
    \/ HSave("h1", TRUE)
    \/ HSend("h1", TRUE)

SpecResolve == InitResolve /\ [][NextResolve]_vars

----------------------------------------------------------------------------
(* Helpers of the properties *)

TelegramIds == {m.from : m \in Inbound}

Pending(e) == events[e].event_time # Done

\* the instant a stored, pending timestamp denotes
InstantOf(event_time) == ParseDateTime(event_time \o <<COLON, 48, 48>>)[1]

\* the external id of the event's owner
OwnerOf(e) == users[events[e].user_id].telegram_id

\* handler h is on the marker path with a message whose timestamp resolves
MarkerMsg(text) ==
    text # <<>> /\ text[1] # EventsCmd /\ parse_event(text[1]) # <<>>

----------------------------------------------------------------------------
(* C1 *)

\* C1: at-most-once notification: over any sequence of scanner ticks and
\* handler invocations, no stored event has a notification sent for it more
\* than once.  (Violated: the result of mark_event_sent is dropped, line 229,
\* so after a failed UPDATE the next tick of the same minute sends again.)
C1_AtMostOnce ==
    \A e \in DOMAIN notified : notified[e] <= 1

----------------------------------------------------------------------------
(* C2 *)

\* C2: delivery is irreversible and terminal: once an event's event_time is
\* the sentinel 'done' no later step changes that field, and get_due_events
\* returns the event for no value of now.
C2_DeliveredIsTerminal ==
    /\ [][\A e \in DOMAIN events :
            events[e].event_time = Done
                => e \in DOMAIN events' /\ events'[e].event_time = Done]_vars
    /\ [](\A i \in DOMAIN Instants :
            LET found == get_due_events(events, users, FormatDateTime(Instants[i]))
            IN \A k \in DOMAIN found : Pending(found[k].eid))

\* a delivered event exists while a later query has returned another event
C2_Witness ==
    /\ spc = "send"
    /\ \E e \in DOMAIN events : ~Pending(e) /\ due[1].eid # e

----------------------------------------------------------------------------
(* C3 *)

----------------------------------------------------------------------------
(* C4 *)

\* the minute of pending event e has passed, no notification was sent for it
\* and no tick that queried that minute is still in its loop
Missed(e) ==
    /\ Pending(e)
    /\ Before(InstantOf(events[e].event_time), Now)
    /\ notified[e] = 0
    /\ ~(spc \in {"send", "mark"} /\ scanNow = events[e].event_time)

\* C4: missed window: an event whose minute passed without a tick querying it
\* (or that was stored with a timestamp earlier than now) stays pending and
\* un-notified for ever, the clock only advancing.
C4_MissedWindow ==
    [][\A e \in DOMAIN events :
          Missed(e) => /\ e \in DOMAIN events'
                       /\ events'[e] = events[e]
                       /\ notified'[e] = 0
                       /\ ~(spc' \in {"send", "mark"}
                            /\ scanNow' = events[e].event_time)]_vars

\* a later tick has queried and found nothing although a missed event is stored
C4_Witness ==
    /\ spc = "drop" /\ tickOk /\ scanNow = FormatDateTime(Now)
    /\ \E e \in DOMAIN events : Missed(e)

----------------------------------------------------------------------------
(* C5 *)

\* C5: ensure_user_exists is idempotent: there is at most one user row per
\* telegram_id, every call returns the id of the row of its telegram_id, and
\* no step changes an existing user row (its username included).
C5_EnsureUserIdempotent ==
    /\ [](\A i, j \in DOMAIN users :
            users[i].telegram_id = users[j].telegram_id => i = j)
    /\ [](\A h \in Handlers :
            huid[h] # 0 => /\ huid[h] \in DOMAIN users
                           /\ users[huid[h]].telegram_id = hmsg[h].from)
    /\ [][\A i \in DOMAIN users :
            i \in DOMAIN users' /\ users'[i] = users[i]]_vars

\* two calls for one telegram_id with different usernames got the same id
C5_Witness ==
    \E g, h \in Handlers :
        /\ g # h
        /\ hmsg[g].from = hmsg[h].from
        /\ hmsg[g].username # hmsg[h].username
        /\ huid[g] # 0 /\ huid[g] = huid[h]
        /\ hpc[h] = "save"

----------------------------------------------------------------------------
(* C6 *)

\* handler h has run save_event on a message that matches the marker
\* grammar and whose composed timestamp does not parse
InvalidTimestampHandled(h) ==
    /\ MarkerMsg(hmsg[h].text)
    /\ ResolveEventTime(parse_event(hmsg[h].text[1])[1], Now) = <<>>
    /\ hpc[h] \in {"send", "done", "panicked"}
    /\ hres[h] # "db_error"

\* C6: InvalidTimestamp handling: for a message that matches the marker
\* grammar and whose date/time is invalid, no event is persisted, the user
\* receives an error reply and the task that handles messages keeps running.
\* (Violated: save_event panics at line 105; no reply is sent.)
C6_InvalidTimestampRecovered ==
    \A h \in Handlers :
        InvalidTimestampHandled(h) =>
            /\ \A e \in DOMAIN events : events[e].text # hmsg[h].text[1]
            /\ reply[h].kind = "error"
            /\ hpc[h] # "panicked"

----------------------------------------------------------------------------
(* C7 *)

\* C7: on the marker path the user is ensured before the event is created,
\* the confirmation is sent only after the event row is persisted, and when
\* persistence fails no confirmation is sent and the user receives an error
\* message instead.  (Violated in its last part: `?` returns the error to
\* teloxide, lines 265 and 268; no message is sent to the user.)
C7_OrderedSideEffects ==
    \A h \in Handlers :
        /\ hpc[h] = "save" =>
              /\ huid[h] \in DOMAIN users
              /\ users[huid[h]].telegram_id = hmsg[h].from
        /\ reply[h].kind = "saved" =>
              \E e \in DOMAIN events :
                  /\ events[e].user_id = huid[h]
                  /\ events[e].text = hmsg[h].text[1]
        /\ (MarkerMsg(hmsg[h].text) /\ huid[h] # 0 /\ hres[h] = "db_error") =>
              reply[h].kind = "error"

----------------------------------------------------------------------------
(* C8 *)

\* the reply of handler h belongs to the path the text of its message selects
ReplyMatchesText(h) ==
    LET text == hmsg[h].text
        kind == reply[h].kind
    IN /\ kind \in {"listing", "noevents"} => text = <<EventsCmd>>
       /\ kind = "saved" => MarkerMsg(text)
       /\ kind = "help" => text # <<>> /\ text # <<EventsCmd>> /\ ~MarkerMsg(text)
       /\ text = <<>> => kind = "none" /\ hpc[h] \in {"idle", "done"}
       /\ hpc[h] = "send" => kind # "none"

\* C8: handler dispatch: a message with text takes exactly one of the paths
\* listing (text is exactly "/events"), marker, help, in that precedence;
\* only the marker path changes the store; a message without text changes
\* nothing and is not answered.
C8_Dispatch ==
    /\ [](\A h \in Handlers : ReplyMatchesText(h))
    /\ [][\A h \in Handlers :
            (hpc'[h] # hpc[h] /\ ~MarkerMsg(hmsg'[h].text))
                => UNCHANGED <<users, events>>]_vars

\* a listing was answered while the store holds events, and left them alone
C8_Witness ==
    \E h \in Handlers :
        /\ hmsg[h].text = <<EventsCmd>>
        /\ hpc[h] = "done" /\ hres[h] = "ok"
        /\ reply[h].kind = "listing"
        /\ events # <<>>

----------------------------------------------------------------------------
(* C9 *)

\* C9: listing order: get_user_events returns a user's pending events in
\* chronological order of their timestamps.  (Violated: ORDER BY compares
\* the text "DD.MM.YYYY HH:MM", so 01.02.2024 is listed before 02.01.2024.)
C9_ListingChronological ==
    \A t \in TelegramIds :
        LET listed == get_user_events(events, users, t)
        IN \A i, j \in DOMAIN listed :
              (i < j /\ listed[i].event_time # Done /\ listed[j].event_time # Done)
                  => ~Before(InstantOf(listed[j].event_time),
                             InstantOf(listed[i].event_time))

----------------------------------------------------------------------------
(* C10 *)

\* the stored events of the user with external id t
EventsOf(t) == {e \in DOMAIN events : OwnerOf(e) = t}

\* the lines are numbered 1..N and are, one for one, the events in S
LinesAre(lines, S) ==
    /\ Len(lines) = Cardinality(S)
    /\ \A k \in DOMAIN lines : lines[k].n = k
    /\ \E f \in [DOMAIN lines -> S] :
          /\ \A k, l \in DOMAIN lines : f[k] = f[l] => k = l
          /\ \A k \in DOMAIN lines :
                /\ lines[k].text = events[f[k]].text
                /\ lines[k].event_time = events[f[k]].event_time

\* C10: listing size: the listing path answers a user without stored events
\* (or unknown) with the "no events" message, and a user with N stored events
\* with exactly N lines numbered 1..N, one per event of that user, delivered
\* events included, none of another user.
C10_ListingSize ==
    /\ \A h \in Handlers :
          (hpc[h] = "send" /\ hmsg[h].text = <<EventsCmd>>) =>
              IF EventsOf(hmsg[h].from) = {}
              THEN reply[h].kind = "noevents"
              ELSE /\ reply[h].kind = "listing"
                   /\ LinesAre(reply[h].body, EventsOf(hmsg[h].from))
    /\ \A t \in TelegramIds :
          LinesAre(ListingLines(get_user_events(events, users, t)), EventsOf(t))

\* a listing is being sent that holds a delivered event, while another
\* user's event is stored
C10_Witness ==
    \E h \in Handlers :
        /\ hpc[h] = "send"
        /\ reply[h].kind = "listing"
        /\ \E k \in DOMAIN reply[h].body : reply[h].body[k].event_time = Done

----------------------------------------------------------------------------
(* C11 *)

\* the numbers a marker denotes: the date of the marker, completed from the
\* local date now, and its time of day
MarkerFields(event, now) ==
    LET date == IF event.date = <<>> THEN <<>> ELSE event.date[1]
    IN [d  |-> IF date = <<>> THEN now.d ELSE ParseInt(SubSeq(date, 1, 2)),
        mo |-> IF date = <<>> THEN now.mo ELSE ParseInt(SubSeq(date, 4, 5)),
        y  |-> IF Len(date) = 10 THEN ParseInt(SubSeq(date, 7, 10)) ELSE now.y,
        h  |-> ParseInt(SubSeq(event.time, 1, 2)),
        mi |-> ParseInt(SubSeq(event.time, 4, 5))]

ValidTime(f) == f.h \in 0..23 /\ f.mi \in 0..59

ValidDate(f) == f.mo \in 1..12 /\ f.d \in 1..DaysInMonth(f.y, f.mo)

\* the timestamp the resolution rule asks for
ExpectedEventTime(event, now) ==
    LET date == IF event.date = <<>> THEN FormatDate(now)
                ELSE IF Len(event.date[1]) = 5
                     THEN event.date[1] \o <<DOT>> \o D4(now.y)
                     ELSE event.date[1]
    IN date \o <<SP>> \o event.time

\* handler h has run save_event for a marker message
SaveEventRan(h) ==
    MarkerMsg(hmsg[h].text) /\ hpc[h] \in {"send", "panicked"}

\* the last row of events is the message of h with time stamp ts
StoredAs(h, ts) ==
    /\ hpc[h] = "send"
    /\ events # <<>>
    /\ events[Len(events)] =
          [user_id |-> huid[h], text |-> hmsg[h].text[1], event_time |-> ts]

\* "01.05.2024 09:30"
Scenario1Stamp == <<48, 49, 46, 48, 53, 46, 50, 48, 50, 52, 32, 48, 57, 58, 51, 48>>

\* C11 as stated: for a parsed event with a valid time, save_event stores
\* "DD.MM.YYYY HH:MM" with today's date, the marker's DD.MM and the current
\* year, or the marker's full date, and the whole message as the text.
\* (Violated: a valid time with a date that is no calendar date, such as
\* "@31.02.2024 10:00", stores nothing.)
C11_ResolutionForValidTime ==
    \A h \in Handlers :
        LET event == parse_event(hmsg[h].text[1])[1]
        IN (SaveEventRan(h) /\ ValidTime(MarkerFields(event, Now)))
              => StoredAs(h, ExpectedEventTime(event, Now))

\* C11 (amended): for a parsed event whose time is valid and whose date,
\* completed by the rule, is a calendar date, save_event stores
\* "DD.MM.YYYY HH:MM" with today's date, the marker's DD.MM and the current
\* year, or the marker's full date, and the whole message as the text;
\* "@09:30 dentist" on 2024-05-01 is stored as "01.05.2024 09:30".
C11_TimestampResolution ==
    \A h \in Handlers :
        LET event == parse_event(hmsg[h].text[1])[1]
            f == MarkerFields(event, Now)
        IN /\ (SaveEventRan(h) /\ ValidTime(f) /\ ValidDate(f))
                 => StoredAs(h, ExpectedEventTime(event, Now))
           /\ (SaveEventRan(h) /\ hmsg[h].text[1] = TxtDentist /\ clock = 3)
                 => StoredAs(h, Scenario1Stamp)

\* a day.month marker was stored with the current year 2025
C11_Witness ==
    \E h \in Handlers :
        /\ hmsg[h].text = <<TxtShort>>
        /\ clock = 4
        /\ StoredAs(h, D2(2) \o <<DOT>> \o D2(1) \o <<DOT>> \o D4(2025)
                       \o <<SP>> \o D2(10) \o <<COLON>> \o D2(0))

----------------------------------------------------------------------------
(* C12 *)

\* C12: lock discipline: the store's guard is never held while an outbound
\* send is in progress, neither by the scanner around a due notification nor
\* by a handler around its reply.  (Violated: the scanner's guard lives from
\* line 214 to drop(conn) at line 232, across the send of lines 221-226; the
\* handler's guard lives to the end of its block, across lines 250-257 and
\* 276.)
C12_NoLockAcrossSend ==
    /\ spc = "send" => lock # "scanner"
    /\ \A h \in Handlers : hpc[h] = "send" => lock # h

----------------------------------------------------------------------------
(* C13 *)

\* C13: independence under a hung transport call: while a notification send
\* of the scanner is in progress (it may never return), a handler that waits
\* for the store is not kept out by the scanner; and while a reply send of a
\* handler is in progress, the scanner, due for its next tick, is not kept
\* out by that handler.  (Violated: both hold the guard across the send.)
C13_HungSendBlocksNobody ==
    /\ \A h \in Handlers : (spc = "send" /\ hpc[h] = "lock") => lock # "scanner"
    /\ \A h \in Handlers : (hpc[h] = "send" /\ spc = "sleep") => lock # h

----------------------------------------------------------------------------
(* C14 *)

\* the activities inside their sequence of store accesses: the scanner from
\* get_due_events to the last mark_event_sent of the tick, a handler from
\* get_user_events or ensure_user_exists to save_event
InSequence ==
    {a \in {"scanner"} : spc \in {"query", "send", "mark", "drop"}}
    \cup {h \in Handlers : hpc[h] \in {"list", "ensure", "insert", "save"}}

\* the activities about to read or write the store
InStore ==
    {a \in {"scanner"} : spc \in {"query", "mark"}}
    \cup {h \in Handlers : hpc[h] \in {"list", "ensure", "insert", "save"}}

\* activity a takes a step
Steps(a) == IF a = "scanner" THEN spc' # spc ELSE hpc'[a] # hpc[a]

\* C14: mutual exclusion: every activity inside its sequence of store
\* accesses holds the lock, so no two activities are inside a store read or
\* write at the same time; and the store changes only by a step of the
\* activity that holds the lock, so the ensure_user_exists + save_event and
\* get_due_events + mark_event_sent sequences are never interleaved with
\* another activity's store access.
C14_MutualExclusion ==
    /\ [](\A a \in InSequence : lock = a)
    /\ [][/\ storeVars' # storeVars =>
               \E a \in InStore : lock = a /\ Steps(a)
          /\ \A a \in InSequence : \A b \in InStore \ {a} : ~Steps(b)]_vars

\* a handler waits for the store while the scanner, inside its tick, is
\* about to run mark_event_sent
C14_Witness ==
    /\ spc = "mark" /\ lock = "scanner"
    /\ \E h \in Handlers : hpc[h] = "lock"

----------------------------------------------------------------------------
(* C15 *)

\* C15: the scanner does not hold the store lock while it sleeps between
\* ticks, so a handler that asks for the store during the sleep is not kept
\* out by the scanner; and, every send returning, every handler invocation
\* that waits for the store eventually acquires it.
C15_SleepWithoutLock ==
    /\ [](spc = "sleep" => lock # "scanner")
    /\ \A h \in Handlers : (hpc[h] = "lock") ~> (lock = h)

\* between two ticks (a notification was sent already) the scanner sleeps and
\* a handler holds the store
C15_Witness ==
    /\ spc = "sleep"
    /\ \E e \in DOMAIN notified : notified[e] >= 1
    /\ \E h \in Handlers : lock = h /\ hpc[h] \in {"list", "ensure"}

----------------------------------------------------------------------------
(* C16 *)

\* C16: notification send failure is non-fatal: whatever the send returns,
\* the next step of the tick is mark_event_sent for the same event; after it
\* the tick goes on with the remaining due events; and the event whose send
\* failed is delivered after that mark_event_sent, so that no later tick
\* sends it again.  (Violated: the result of mark_event_sent is dropped, line
\* 229; when it fails the event stays pending and is sent again.)
C16_SendFailureNonFatal ==
    /\ [][(spc = "send" /\ spc' # "send") => (spc' = "mark" /\ due' = due)]_vars
    /\ [][(spc = "mark" /\ spc' # "mark") =>
             /\ due' = Tail(due)
             /\ spc' = IF due' = <<>> THEN "drop" ELSE "send"]_vars
    /\ [][(spc = "mark" /\ spc' # "mark" /\ ~sendOk) =>
             events'[due[1].eid].event_time = Done]_vars

----------------------------------------------------------------------------
(* C17 *)

\* C17: the scanner has no terminal state: the end of every tick releases
\* the store lock and goes to sleep; a step of the scanner in which a store
\* call or a send fails changes no event; and after every tick, failed or
\* not, the scanner starts another tick, so it ticks again and again for
\* ever.
C17_ScannerNeverStops ==
    /\ [][(spc = "drop" /\ spc' # spc) => (spc' = "sleep" /\ lock' = "free")]_vars
    /\ [][(faults' # faults /\ spc' # spc) => events' = events]_vars
    /\ (~tickOk) ~> (tickOk /\ spc = "query")
    /\ []<>(spc = "query")

\* a tick in which mark_event_sent failed (the event was sent and is still
\* pending) has ended and the next tick has started
C17_Witness ==
    /\ spc = "query" /\ tickOk
    /\ \E e \in DOMAIN events : Pending(e) /\ notified[e] >= 1

----------------------------------------------------------------------------
(* C18 *)

\* C18: foreign-key invariant: in every reachable state every event row's
\* user_id is the internal id of an existing user row; the step that creates
\* an event is the save_event of a handler, and the user the new row refers
\* to has the telegram id of the sender of that handler's message; and no
\* user row is ever changed or removed, so the owner stays that sender.
C18_ForeignKey ==
    /\ [](\A e \in DOMAIN events : events[e].user_id \in DOMAIN users)
    /\ [][Len(events') > Len(events) =>
             \E h \in Handlers :
                /\ hpc[h] = "save" /\ hpc'[h] = "send"
                /\ Len(events') = Len(events) + 1
                /\ events'[Len(events')].user_id \in DOMAIN users
                /\ users[events'[Len(events')].user_id].telegram_id = hmsg[h].from
                /\ events'[Len(events')].text = hmsg[h].text[1]]_vars
    /\ [][SubSeq(users', 1, Len(users)) = users]_vars

\* two users own events: the second user's event refers to the second row
C18_Witness ==
    /\ Len(users) = 2 /\ Len(events) = 2
    /\ events[1].user_id = 1 /\ events[2].user_id = 2
    /\ users[1].telegram_id # users[2].telegram_id
    /\ \E h \in Handlers : hpc[h] = "send" /\ hmsg[h].from = users[2].telegram_id

----------------------------------------------------------------------------
(* C19 *)

\* C19: event immutability: no step removes an event row or changes the text
\* or the owner of one; an event_time changes only from a pending timestamp
\* to delivered, and only in the scanner's mark_event_sent step; so a step
\* of a handler (listing, marker or help path) leaves every existing row as
\* it is and the sequence of events only grows.
C19_EventImmutability ==
    [][/\ Len(events') >= Len(events)
       /\ \A e \in DOMAIN events :
             /\ events'[e].text = events[e].text
             /\ events'[e].user_id = events[e].user_id
             /\ events'[e].event_time # events[e].event_time =>
                   /\ Pending(e)
                   /\ events'[e].event_time = Done
                   /\ spc = "mark" /\ spc' # spc
       /\ (\E h \in Handlers : hpc'[h] # hpc[h]) =>
             SubSeq(events', 1, Len(events)) = events]_vars

\* one event was delivered by the scanner and a handler then stored another
C19_Witness ==
    /\ Len(events) = 2
    /\ ~Pending(1) /\ Pending(2)
    /\ notified[1] >= 1

----------------------------------------------------------------------------
(* C20 *)

\* C20: no silent delivery: in every reachable state every delivered event
\* has had a notification send attempted for it; and every event that a
\* mark_event_sent step turns delivered is one of the events returned by the
\* get_due_events of the tick in progress: it is still in the tick's queue
\* or its send was attempted already.  (Violated in the first part:
\* mark_event_sent marks by owner and minute, lines 188-190, so with two
\* events of one user in one minute the mark after the first send delivers
\* the second event before any send for it.)
C20_NoSilentDelivery ==
    /\ [](\A e \in DOMAIN events : ~Pending(e) => notified[e] >= 1)
    /\ [][\A e \in DOMAIN events :
             (Pending(e) /\ events'[e].event_time = Done) =>
                \/ \E k \in DOMAIN due : due[k].eid = e
                \/ notified[e] >= 1]_vars

====
